---- MODULE Spec2Model ----
(***************************************************************************)
(* Model of the Linkerd adapter of src/linkerd/linkerd.go: the manifest    *)
(* apply loop (applyConfigChange) and the operation entry point            *)
(* (ApplyOperation).                                                       *)
(*                                                                         *)
(* The Kubernetes cluster is the environment.  It is modelled as the set   *)
(* of objects that exist; a create of an existing object answers           *)
(* AlreadyExists, a delete of an absent object answers NotFound, and any   *)
(* call may instead fail with another error ("Error").                     *)
(***************************************************************************)
EXTENDS Integers, Sequences, FiniteSets, TLC

\* ------------------------------------------------------------------ bounds
MaxDocs == 2      \* documents in one manifest
MaxRuns == 2      \* successive applications of the same manifest

\* ------------------------------------------------------------ manifest data
\* A fragment of the manifest after strings.Split: "blank" is "" or "\n",
\* "bad" is text the deserializer rejects, "obj" decodes to (kind, name).
Doc(frag, kind, name) == [frag |-> frag, kind |-> kind, name |-> name]

Documents ==
    { Doc("blank", "", ""),
      Doc("bad", "", ""),
      Doc("obj", "Namespace", "default"),
      Doc("obj", "Namespace", "x"),
      Doc("obj", "Namespace", "y"),
      Doc("obj", "ClusterRole", "a"),
      Doc("obj", "ConfigMap", "a"),
      Doc("obj", "Pod", "a"),
      Doc("obj", "ServiceList", "a") }

Manifests == UNION { [1..n -> Documents] : n \in 0..MaxDocs }

\* The alternatives of the regular expression acceptedK8sTypes.
AcceptedAlternatives ==
    { "Namespace", "Role", "ClusterRole", "RoleBinding", "ClusterRoleBinding",
      "ServiceAccount", "MutatingWebhookConfiguration", "Secret",
      "ValidatingWebhookConfiguration", "APIService", "PodSecurityPolicy",
      "ConfigMap", "Service", "Deployment", "CronJob",
      "CustomResourceDefinition" }

\* s contains a as a contiguous substring.
Contains(s, a) ==
    \E i \in 1..Len(s) :
        /\ i + Len(a) - 1 <= Len(s)
        /\ SubSeq(s, i, i + Len(a) - 1) = a

\* regexp.MatchString of an unanchored alternation: some alternative occurs
\* somewhere in the kind.
MatchString(kind) == \E alt \in AcceptedAlternatives : Contains(kind, alt)

\* -------------------------------------------------------------- the cluster
\* Kinds the discovery REST mapper resolves, and the scope it reports.
ServedKinds == { "Namespace", "ClusterRole", "ConfigMap" }
ScopeName(kind) == IF kind \in { "Namespace", "ClusterRole" } THEN "root" ELSE "namespace"

Key(kind, name) == <<kind, name>>
Objects == { Key("Namespace", "default"), Key("Namespace", "x"),
             Key("ClusterRole", "a"), Key("ConfigMap", "a") }

VARIABLES
    deploymentYAML,  \* sepYamlfiles: the fragments of the manifest being applied
    deleteOpts,      \* the deleteOpts argument
    pc,              \* applyConfigChange: "idle" (not called), "loop", "done" (returned)
    idx,             \* position of the loop in sepYamlfiles
    dataNamespace,   \* the deferred Namespace: [doc, kind, name]; doc = 0: none
    calls,           \* cluster calls issued by this run, in order
    ret,             \* "" while running, "nil" or "err" once returned
    errCall,         \* index in calls of the call whose error is returned, or 0
    cluster,         \* objects that exist in the cluster
    run,             \* number of the current application of the manifest
    prev,            \* summaries of the earlier applications
    caller,          \* who called applyConfigChange: "direct", "sync", "task"
    arReq,           \* the request given to ApplyOperation, or NoRequest
    opRet,           \* what ApplyOperation returned: NoReturn, Ack or Err
    task,            \* position of the background task ("none": never started)
    fetched,         \* manifests retrieved or rendered by ApplyOperation
    eventChan,       \* iClient.eventChan, oldest event first
    yamlFileContents,\* the manifest captured by the sample-application task
    trail,           \* steps and calls of the background task, in order
    sending,         \* events of producer tasks waiting at eventChan <- event
    requeue,         \* events held by the re-add tasks of StreamEvents
    streams,         \* the calls of StreamEvents: position, event held, return
    delivered,       \* events handed to a client by stream.Send, in order
    enqLog,          \* events put on the channel by producers, in order
    produced,        \* number of events producers have created
    failures,        \* number of stream.Send calls that failed
    budget,          \* receives the consumers may still make
    backlog          \* events on the channel when the observation starts

applyVars == <<deploymentYAML, deleteOpts, pc, idx, dataNamespace, calls, ret,
               errCall, cluster, run, prev>>
taskVars == <<yamlFileContents, trail>>
streamVars == <<sending, requeue, streams, delivered, enqLog, produced, failures,
                budget, backlog>>
opVars == <<caller, arReq, opRet, task, fetched, eventChan, taskVars, streamVars>>
vars == <<applyVars, opVars>>

\* What ApplyOperation returns: nothing yet, (&ApplyRuleResponse{OperationId}, nil)
\* or (nil, err).
NoReturn == [status |-> "pending", operationId |-> ""]
\* Mutant of Ack: the response does not carry the OperationId of the request.
AckWithoutId(req) == [status |-> "ok", operationId |-> ""]

Ack(req) == [status |-> "ok", operationId |-> req.operationId]
Err == [status |-> "err", operationId |-> ""]

\* NoRequest: ApplyOperation has not been called.  NilRequest: it was called
\* with arReq == nil.
NilRequest == [opName |-> "", customBody |-> <<>>, deleteOp |-> FALSE, operationId |-> "nil"]
NoRequest == [opName |-> "", customBody |-> <<>>, deleteOp |-> FALSE, operationId |-> ""]
NoNamespace == [doc |-> 0, kind |-> "", name |-> ""]

\* Calls of StreamEvents a behaviour can hold.
MaxStreams == 2

\* A call of StreamEvents that has not been made yet.
NoEvent == [operationId |-> 0, eventType |-> ""]
IdleStream == [pc |-> "idle", event |-> NoEvent, ret |-> "", sendFailed |-> FALSE]

\* No producer, no consumer and no re-add task exists.
NoStreams ==
    /\ sending = {}
    /\ requeue = {}
    /\ streams = [i \in 1..MaxStreams |-> IdleStream]
    /\ delivered = <<>>
    /\ enqLog = <<>>
    /\ produced = 0
    /\ failures = 0
    /\ budget = 0
    /\ backlog = 0

Call(op, phase, doc, kind, name, out) ==
    [op |-> op, phase |-> phase, doc |-> doc, kind |-> kind, name |-> name, out |-> out]

\* A run met a failure other than AlreadyExists / NotFound.
Faulty(cs) == \E i \in 1..Len(cs) : cs[i].out \in {"Error", "Fail", "NoMatch"}

\* ------------------------------------------------------- applyConfigChange
\* State on entry of applyConfigChange(deploymentYAML, deleteOpts).
Enter(yaml, del) ==
    /\ deploymentYAML' = yaml
    /\ deleteOpts' = del
    /\ pc' = "loop"
    /\ idx' = 1
    /\ dataNamespace' = NoNamespace
    /\ calls' = <<>>
    /\ ret' = ""
    /\ errCall' = 0

InitApply ==
    /\ deploymentYAML \in Manifests
    /\ deleteOpts \in BOOLEAN
    /\ pc = "loop"
    /\ idx = 1
    /\ dataNamespace = NoNamespace
    /\ calls = <<>>
    /\ ret = ""
    /\ errCall = 0
    /\ cluster \in { c \in SUBSET Objects : Key("Namespace", "default") \in c }
    /\ run = 1
    /\ prev = <<>>
    /\ caller = "direct"
    /\ arReq = NoRequest
    /\ opRet = NoReturn
    /\ task = "none"
    /\ fetched = 0
    /\ eventChan = <<>>
    /\ yamlFileContents = <<>>
    /\ trail = <<>>
    /\ NoStreams

InLoop == pc = "loop" /\ idx <= Len(deploymentYAML)
f == deploymentYAML[idx]

Return(val, cause) ==
    /\ pc' = "done"
    /\ ret' = val
    /\ errCall' = cause

Continue ==
    /\ idx' = idx + 1
    /\ UNCHANGED <<pc, ret, errCall>>

Discovered == Call("discover", "loop", idx, f.kind, f.name, "Ok")

\* if f == "\n" || f == "" { continue }
SkipEmpty ==
    /\ InLoop
    /\ f.frag = "blank"
    /\ Continue
    /\ UNCHANGED <<deploymentYAML, deleteOpts, dataNamespace, calls, cluster, run, prev, opVars>>

\* decode fails: continue
DecodeError ==
    /\ InLoop
    /\ f.frag = "bad"
    /\ Continue
    /\ UNCHANGED <<deploymentYAML, deleteOpts, dataNamespace, calls, cluster, run, prev, opVars>>

\* the kind does not match acceptedK8sTypes: the document is skipped
SkipUnsupported ==
    /\ InLoop
    /\ f.frag = "obj"
    /\ ~MatchString(f.kind)
    /\ Continue
    /\ UNCHANGED <<deploymentYAML, deleteOpts, dataNamespace, calls, cluster, run, prev, opVars>>

Accepted == InLoop /\ f.frag = "obj" /\ MatchString(f.kind)

\* restmapper.GetAPIGroupResources fails: return nil
GroupResourcesError ==
    /\ Accepted
    /\ calls' = Append(calls, Call("discover", "loop", idx, f.kind, f.name, "Fail"))
    /\ Return("nil", 0)
    /\ UNCHANGED <<deploymentYAML, deleteOpts, idx, dataNamespace, cluster, run, prev, opVars>>

\* resm.RESTMapping finds no resource for the kind: return nil
MappingError ==
    /\ Accepted
    /\ f.kind \notin ServedKinds
    /\ calls' = Append(calls, Call("discover", "loop", idx, f.kind, f.name, "NoMatch"))
    /\ Return("nil", 0)
    /\ UNCHANGED <<deploymentYAML, deleteOpts, idx, dataNamespace, cluster, run, prev, opVars>>

Resolved == Accepted /\ f.kind \in ServedKinds

\* runtime.DefaultUnstructuredConverter.ToUnstructured is total on the typed
\* objects the deserializer returns, so its error return is never taken.

\* Answer of the cluster to a create / delete of the object key.
CreateOutcome(key, fault) ==
    IF fault THEN "Error" ELSE IF key \in cluster THEN "AlreadyExists" ELSE "Ok"
DeleteOutcome(key, fault) ==
    IF fault THEN "Error" ELSE IF key \in cluster THEN "Ok" ELSE "NotFound"
\* A delete of the empty name of the empty resource (no Namespace recorded) names
\* no object: the client refuses it with an error that is not NotFound.
EndDeleteOutcome(key, fault) ==
    IF key = Key("", "") THEN "Refused" ELSE DeleteOutcome(key, fault)

\* err != nil && !kubeerror.IsAlreadyExists(err), err != nil && !kubeerror.IsNotFound(err)
CreateFailed(out) == out # "Ok" /\ out # "AlreadyExists"
DeleteFailed(out) == out # "Ok" /\ out # "NotFound"

\* Mutant of IsDeferred: every cluster-scoped object of a delete run is deferred.
IsDeferredAnyKind(doc) ==
    /\ ScopeName(doc.kind) = "root"
    /\ deleteOpts

\* Mutant of IsDeferred: the kind is compared with the wrong spelling.
IsDeferredMisspelt(doc) ==
    /\ ScopeName(doc.kind) = "root"
    /\ deleteOpts
    /\ doc.kind = "namespace"

\* if deleteOpts { if Kind == "Namespace" { ...; continue } } under scope "root"
IsDeferred(doc) ==
    /\ ScopeName(doc.kind) = "root"
    /\ deleteOpts
    /\ doc.kind = "Namespace"

\* Mutant of DeferNamespace: a Namespace recorded earlier is not replaced.
DeferNamespaceKeepFirst ==
    /\ Resolved
    /\ IsDeferred(f)
    /\ dataNamespace' = IF dataNamespace = NoNamespace
                         THEN [doc |-> idx, kind |-> f.kind, name |-> f.name]
                         ELSE dataNamespace
    /\ calls' = Append(calls, Discovered)
    /\ Continue
    /\ UNCHANGED <<deploymentYAML, deleteOpts, cluster, run, prev, opVars>>

\* the Namespace is recorded for the end of the batch and not deleted now
DeferNamespace ==
    /\ Resolved
    /\ IsDeferred(f)
    /\ dataNamespace' = [doc |-> idx, kind |-> f.kind, name |-> f.name]
    /\ calls' = Append(calls, Discovered)
    /\ Continue
    /\ UNCHANGED <<deploymentYAML, deleteOpts, cluster, run, prev, opVars>>

\* Mutant of AfterCall: the failure is logged and the loop goes on.
AfterCallLogOnly(failed) == Continue

\* What the loop does after a create / delete call answered: return the error
\* or go on with the next document.
AfterCall(failed) ==
    IF failed
    THEN Return("err", Len(calls) + 2) /\ UNCHANGED idx
    ELSE Continue

\* Resource(...).Delete(name, deleteOptions) of the current document
IssueDelete ==
    \E fault \in BOOLEAN :
        LET out == DeleteOutcome(Key(f.kind, f.name), fault) IN
        /\ calls' = calls \o <<Discovered, Call("delete", "loop", idx, f.kind, f.name, out)>>
        /\ cluster' = IF out = "Ok" THEN cluster \ {Key(f.kind, f.name)} ELSE cluster
        /\ AfterCall(DeleteFailed(out))

\* Resource(...).Create(data, CreateOptions{}) of the current document
IssueCreate ==
    \E fault \in BOOLEAN :
        LET out == CreateOutcome(Key(f.kind, f.name), fault) IN
        /\ calls' = calls \o <<Discovered, Call("create", "loop", idx, f.kind, f.name, out)>>
        /\ cluster' = IF out = "Ok" THEN cluster \cup {Key(f.kind, f.name)} ELSE cluster
        /\ AfterCall(CreateFailed(out))

\* scope "root", delete, not a Namespace
DeleteClusterScoped ==
    /\ Resolved
    /\ ScopeName(f.kind) = "root"
    /\ deleteOpts
    /\ ~IsDeferred(f)
    /\ IssueDelete
    /\ UNCHANGED <<deploymentYAML, deleteOpts, dataNamespace, run, prev, opVars>>

\* scope "root", create
CreateClusterScoped ==
    /\ Resolved
    /\ ScopeName(f.kind) = "root"
    /\ ~deleteOpts
    /\ IssueCreate
    /\ UNCHANGED <<deploymentYAML, deleteOpts, dataNamespace, run, prev, opVars>>

\* any other scope, delete within the namespace of the object
DeleteNamespaced ==
    /\ Resolved
    /\ ScopeName(f.kind) # "root"
    /\ deleteOpts
    /\ IssueDelete
    /\ UNCHANGED <<deploymentYAML, deleteOpts, dataNamespace, run, prev, opVars>>

\* any other scope, create within the namespace of the object
CreateNamespaced ==
    /\ Resolved
    /\ ScopeName(f.kind) # "root"
    /\ ~deleteOpts
    /\ IssueCreate
    /\ UNCHANGED <<deploymentYAML, deleteOpts, dataNamespace, run, prev, opVars>>

LoopOver == pc = "loop" /\ idx > Len(deploymentYAML)

\* if deleteOpts && dataNamespace.GetName() != "default"
RemovesNamespace == deleteOpts /\ dataNamespace.name # "default"

\* "Remove the namespace at least": the delete issued after the loop
RemoveNamespace ==
    /\ LoopOver
    /\ RemovesNamespace
    /\ \E fault \in BOOLEAN :
         LET key == Key(dataNamespace.kind, dataNamespace.name)
             out == EndDeleteOutcome(key, fault) IN
         /\ calls' = Append(calls, Call("delete", "end", dataNamespace.doc,
                                        dataNamespace.kind, dataNamespace.name, out))
         /\ cluster' = IF out = "Ok" THEN cluster \ {key} ELSE cluster
         /\ IF out # "Ok" THEN Return("err", Len(calls) + 1) ELSE Return("nil", 0)
    /\ UNCHANGED <<deploymentYAML, deleteOpts, idx, dataNamespace, run, prev, opVars>>

\* return nil after the loop, nothing left to remove
ReturnNil ==
    /\ LoopOver
    /\ ~RemovesNamespace
    /\ Return("nil", 0)
    /\ UNCHANGED <<deploymentYAML, deleteOpts, idx, dataNamespace, calls, cluster, run, prev, opVars>>

\* The caller applies the same manifest once more.
Reapply ==
    /\ pc = "done"
    /\ run < MaxRuns
    /\ prev' = Append(prev, [ret |-> ret, faulty |-> Faulty(calls)])
    /\ run' = run + 1
    /\ Enter(deploymentYAML, deleteOpts)
    /\ UNCHANGED <<cluster, opVars>>

NextApply ==
    \/ SkipEmpty
    \/ DecodeError
    \/ SkipUnsupported
    \/ GroupResourcesError
    \/ MappingError
    \/ DeferNamespace
    \/ DeleteClusterScoped
    \/ CreateClusterScoped
    \/ DeleteNamespaced
    \/ CreateNamespaced
    \/ RemoveNamespace
    \/ ReturnNil
    \/ Reapply

SpecApply == InitApply /\ [][NextApply]_vars

\* ------------------------------------------------------------ ApplyOperation
\* The keys of the supported-operations registry, named as the code names them.
customOpCommand == "customOpCommand"
installLinkerdCommand == "installLinkerdCommand"
installBooksAppCommand == "installBooksAppCommand"
installHTTPBinApp == "installHTTPBinApp"
installIstioBookInfoApp == "installIstioBookInfoApp"
installEmojiVotoCommand == "installEmojiVotoCommand"

supportedOps ==
    { customOpCommand, installLinkerdCommand, installBooksAppCommand,
      installHTTPBinApp, installIstioBookInfoApp, installEmojiVotoCommand }

\* The cases of the switch that share the sample-application tail.
SampleOps ==
    { installBooksAppCommand, installHTTPBinApp, installIstioBookInfoApp,
      installEmojiVotoCommand }

OpNames == supportedOps \cup { "unknownOp" }
OperationIds == { "op-1" }

\* Requests a client can send.  customBody = <<>> is the empty string.
Requests ==
    [opName : OpNames, customBody : Manifests, deleteOp : BOOLEAN,
     operationId : OperationIds]

\* arReq.Namespace, the namespace a sample application is deployed to.
TargetNamespace == "x"

\* make(chan *meshes.EventsResponse, 100)
ChanCap == 100

Event(type) == [operationId |-> arReq.operationId, eventType |-> type]

\* Mutant of HasRoom: the channel takes an event whatever it holds.
HasRoomAlways == TRUE

\* A send on the buffered channel proceeds only while it holds fewer than
\* cap(eventChan) events; otherwise the sender blocks.
HasRoom == Len(eventChan) < ChanCap

\* An entry of the trail of the background task: a step it took or a call it made.
Step(what, by, scope, out) == [what |-> what, by |-> by, scope |-> scope, out |-> out]

\* Mutant of Send: a task that finds the channel full gives its event up.
SendOrDrop(type) ==
    /\ eventChan' = IF HasRoom THEN Append(eventChan, Event(type)) ELSE eventChan
    /\ trail' = Append(trail, Step("event", "task", "", type))

\* iClient.eventChan <- event: possible only while the channel has room
Send(type) ==
    /\ HasRoom
    /\ eventChan' = Append(eventChan, Event(type))
    /\ trail' = Append(trail, Step("event", "task", "", type))

Init ==
    /\ deploymentYAML = <<>>
    /\ deleteOpts = FALSE
    /\ pc = "idle"
    /\ idx = 1
    /\ dataNamespace = NoNamespace
    /\ calls = <<>>
    /\ ret = ""
    /\ errCall = 0
    /\ cluster \in { c \in SUBSET Objects : Key("Namespace", "default") \in c }
    /\ run = 1
    /\ prev = <<>>
    /\ caller = "none"
    /\ arReq = NoRequest
    /\ opRet = NoReturn
    /\ task = "none"
    /\ fetched = 0
    /\ eventChan = <<>>
    /\ yamlFileContents = <<>>
    /\ trail = <<>>
    /\ NoStreams

\* No request has been received yet.
Idle == arReq = NoRequest /\ opRet = NoReturn

\* op, ok := supportedOps[arReq.OpName]; if !ok
UnknownOp(req) == req.opName \notin supportedOps

\* Mutant of EmptyCustomBody: the body is checked for the wrong operation.
EmptyBodyWrongOp(req) == req.opName = installLinkerdCommand /\ req.customBody = <<>>

\* arReq.OpName == customOpCommand && arReq.CustomBody == ""
EmptyCustomBody(req) == req.opName = customOpCommand /\ req.customBody = <<>>

\* ApplyOperation returns an error before the switch: nothing else changes.
Reject(req) ==
    /\ arReq' = req
    /\ opRet' = Err
    /\ UNCHANGED <<applyVars, caller, task, fetched, eventChan, taskVars, streamVars>>

\* if arReq == nil { return nil, errors.New("mesh client has not been created") }
RejectNil ==
    /\ Idle
    /\ Reject(NilRequest)

\* if !ok { return nil, fmt.Errorf("... is not a valid operation name") }
RejectUnknownOp ==
    /\ Idle
    /\ \E req \in Requests :
         /\ UnknownOp(req)
         /\ Reject(req)

\* if OpName == customOpCommand && CustomBody == "" { return nil, fmt.Errorf(...) }
RejectEmptyBody ==
    /\ Idle
    /\ \E req \in Requests :
         /\ ~UnknownOp(req)
         /\ EmptyCustomBody(req)
         /\ Reject(req)

Valid(req) == ~UnknownOp(req) /\ ~EmptyCustomBody(req)

\* case customOpCommand: the body is applied in the calling task
ApplyCustom ==
    /\ Idle
    /\ \E req \in Requests :
         /\ Valid(req)
         /\ req.opName = customOpCommand
         /\ arReq' = req
         /\ caller' = "sync"
         /\ Enter(req.customBody, req.deleteOp)
    /\ UNCHANGED <<cluster, run, prev, opRet, task, fetched, eventChan, taskVars, streamVars>>

\* Mutant of ReturnCustom: the error of the apply is dropped.
ReturnCustomAlwaysAck ==
    /\ caller = "sync"
    /\ pc = "done"
    /\ opRet = NoReturn
    /\ opRet' = Ack(arReq)
    /\ UNCHANGED <<applyVars, caller, arReq, task, fetched, eventChan, taskVars, streamVars>>

\* applyConfigChange returned to ApplyOperation: its error, or the acknowledgement
ReturnCustom ==
    /\ caller = "sync"
    /\ pc = "done"
    /\ opRet = NoReturn
    /\ opRet' = IF ret = "err" THEN Err ELSE Ack(arReq)
    /\ UNCHANGED <<applyVars, caller, arReq, task, fetched, eventChan, taskVars, streamVars>>

\* case installLinkerdCommand: go func() {...}(); return the acknowledgement
ApplyInstall ==
    /\ Idle
    /\ \E req \in Requests :
         /\ Valid(req)
         /\ req.opName = installLinkerdCommand
         /\ req.customBody = <<>>
         /\ arReq' = req
         /\ task' = "install"
         /\ opRet' = Ack(req)
    /\ UNCHANGED <<applyVars, caller, fetched, eventChan, taskVars, streamVars>>

\* sample application: getYAML / executeTemplate fails, return nil, err
ManifestError ==
    /\ Idle
    /\ \E req \in Requests :
         /\ Valid(req)
         /\ req.opName \in SampleOps
         /\ req.customBody = <<>>
         /\ arReq' = req
         /\ fetched' = fetched + 1
         /\ opRet' = Err
    /\ UNCHANGED <<applyVars, caller, task, eventChan, taskVars, streamVars>>

\* Mutant of FirstStep: the namespace is labelled for a removal too.
FirstStepAlwaysLabel(req) == "label"

\* if !arReq.DeleteOp { labelNamespaceForAutoInjection } comes first in the task
FirstStep(req) == IF req.deleteOp THEN "apply" ELSE "label"

\* sample application: the manifest is retrieved, the task is started and the
\* acknowledgement is returned
ApplySample ==
    /\ Idle
    /\ \E req \in Requests, yaml \in Manifests :
         /\ Valid(req)
         /\ req.opName \in SampleOps
         /\ req.customBody = <<>>
         /\ arReq' = req
         /\ fetched' = fetched + 1
         /\ yamlFileContents' = yaml
         /\ task' = FirstStep(req)
         /\ opRet' = Ack(req)
    /\ UNCHANGED <<applyVars, caller, eventChan, trail, streamVars>>

\* executeInstall fails before the apply (pre-check, install manifest, kubeconfig)
InstallerError ==
    /\ task = "install"
    /\ Send("ERROR")
    /\ task' = "done"
    /\ UNCHANGED <<applyVars, caller, arReq, opRet, fetched, yamlFileContents, streamVars>>

\* executeInstall: the installer printed the manifest, which is applied
InstallerApply ==
    /\ task = "install"
    /\ \E yaml \in Manifests :
         /\ caller' = "task"
         /\ Enter(yaml, arReq.deleteOp)
    /\ task' = "applying"
    /\ trail' = Append(trail, Step("apply", "task", "", ""))
    /\ UNCHANGED <<cluster, run, prev, arReq, opRet, fetched, eventChan,
                   yamlFileContents, streamVars>>

\* --------------------------------------------- getResource / updateResource
\* What the API server can answer to a request on a built-in resource.
Outcomes == { "Ok", "NotFound", "Error" }

\* Get or Update of an object of the cluster: it is found unless the request
\* fails; an absent object is reported as not found unless the request fails.
Answers(key) == IF key \in cluster THEN { "Ok", "Error" } ELSE { "NotFound", "Error" }

\* The return of getResource / updateResource, as the trail records it.
Result(what, by, out, from) ==
    [what |-> what, by |-> by, scope |-> "result", out |-> out, from |-> from]

\* Mutant of Fallback: the cluster-scoped call is issued whatever the first answered.
FallbackAlways(what, by, o1, o2) ==
    << Step(what, by, "namespaced", o1), Step(what, by, "cluster", o2),
       Result(what, by, IF o1 = "Ok" THEN "Ok" ELSE o2,
              IF o1 = "Ok" THEN "namespaced" ELSE IF o2 = "Ok" THEN "cluster" ELSE "none") >>

\* Resource(res).Namespace(ns).<verb>; if err != nil { Resource(res).<verb>;
\* if err != nil { return err } }; return nil
Fallback(what, by, o1, o2) ==
    IF o1 = "Ok"
    THEN << Step(what, by, "namespaced", o1), Result(what, by, "Ok", "namespaced") >>
    ELSE << Step(what, by, "namespaced", o1), Step(what, by, "cluster", o2),
            Result(what, by, o2, IF o2 = "Ok" THEN "cluster" ELSE "none") >>

getResource(by, o1, o2) == Fallback("get", by, o1, o2)
updateResource(by, o1, o2) == Fallback("update", by, o1, o2)

\* The value returned by the call whose steps are ts.
Returned(ts) == ts[Len(ts)].out

\* ------------------------------------------- labelNamespaceForAutoInjection
NamespaceKey == Key("Namespace", TargetNamespace)

\* strings.HasSuffix(err.Error(), "not found")
NotFoundSuffix(out) == out = "NotFound"

\* ns, err := iClient.getResource(ctx, res, ns) and the branch on its error
LabelGet ==
    /\ task = "label"
    /\ \E o1, o2 \in Answers(NamespaceKey) :
         LET ts == getResource("label", o1, o2) IN
         /\ trail' = trail \o ts
         /\ task' = IF Returned(ts) = "Ok" THEN "label-update"
                    ELSE IF NotFoundSuffix(Returned(ts)) THEN "label-create"
                    ELSE "label-err"
    /\ UNCHANGED <<applyVars, caller, arReq, opRet, fetched, eventChan,
                   yamlFileContents, streamVars>>

\* createNamespace: executeTemplate fails, the error is returned
TemplateError ==
    /\ task = "label-create"
    /\ trail' = Append(trail, Step("createNamespace", "label", "", "Error"))
    /\ task' = "label-err"
    /\ UNCHANGED <<applyVars, caller, arReq, opRet, fetched, eventChan,
                   yamlFileContents, streamVars>>

\* createNamespace: the rendered namespace.yml is applied with delete = false
CreateNamespace ==
    /\ task = "label-create"
    /\ caller' = "label"
    /\ Enter(<< Doc("obj", "Namespace", TargetNamespace) >>, FALSE)
    /\ task' = "label-creating"
    /\ UNCHANGED <<cluster, run, prev, arReq, opRet, fetched, eventChan, taskVars,
                   streamVars>>

\* applyConfigChange returned to createNamespace, which returns to the labelling
CreateNamespaceReturn ==
    /\ task = "label-creating"
    /\ caller = "label"
    /\ pc = "done"
    /\ trail' = Append(trail, Step("createNamespace", "label", "",
                                   IF ret = "err" THEN "Error" ELSE "Ok"))
    /\ task' = IF ret = "err" THEN "label-err" ELSE "label-readback"
    /\ UNCHANGED <<applyVars, caller, arReq, opRet, fetched, eventChan,
                   yamlFileContents, streamVars>>

\* Mutant of AfterReadBackFailure: the error of the read-back is returned.
AfterReadBackFailureReturnsError == "label-err"

\* ns, err = getResource(...) set the inner ns to nil; the argument
\* ns.GetName() of the Debugf call dereferences it: the task panics.
AfterReadBackFailure == "panic"

\* the read-back of the namespace that was just created
LabelReadBack ==
    /\ task = "label-readback"
    /\ \E o1, o2 \in Answers(NamespaceKey) :
         LET ts == getResource("label", o1, o2) IN
         /\ trail' = trail \o ts
         /\ task' = IF Returned(ts) = "Ok" THEN "label-update"
                    ELSE AfterReadBackFailure
    /\ UNCHANGED <<applyVars, caller, arReq, opRet, fetched, eventChan,
                   yamlFileContents, streamVars>>

\* ns.SetAnnotations(...); err = iClient.updateResource(ctx, res, ns)
LabelUpdate ==
    /\ task = "label-update"
    /\ \E o1, o2 \in Answers(NamespaceKey) :
         LET ts == updateResource("label", o1, o2) IN
         /\ trail' = trail \o ts
         /\ task' = IF Returned(ts) = "Ok" THEN "label-ok" ELSE "label-err"
    /\ UNCHANGED <<applyVars, caller, arReq, opRet, fetched, eventChan,
                   yamlFileContents, streamVars>>

\* labelNamespaceForAutoInjection returned an error: ERROR event, the task ends
LabelError ==
    /\ task = "label-err"
    /\ Send("ERROR")
    /\ task' = "done"
    /\ UNCHANGED <<applyVars, caller, arReq, opRet, fetched, yamlFileContents,
                   streamVars>>

\* labelNamespaceForAutoInjection returned nil: of its calls the task keeps
\* the result only
LabelOk ==
    /\ task = "label-ok"
    /\ task' = "apply"
    /\ trail' = << Step("label", "label", "", "Ok") >>
    /\ UNCHANGED <<applyVars, caller, arReq, opRet, fetched, eventChan,
                   yamlFileContents, streamVars>>

\* the task calls applyConfigChange(yamlFileContents, namespace, DeleteOp)
TaskApply ==
    /\ task = "apply"
    /\ caller' = "task"
    /\ Enter(yamlFileContents, arReq.deleteOp)
    /\ task' = "applying"
    /\ trail' = Append(trail, Step("apply", "task", "", ""))
    /\ UNCHANGED <<cluster, run, prev, arReq, opRet, fetched, eventChan,
                   yamlFileContents, streamVars>>

Applied == task = "applying" /\ caller = "task" /\ pc = "done"

\* applyConfigChange (or the installer after it) returned an error: ERROR event
ApplyError ==
    /\ Applied
    /\ ret = "err"
    /\ Send("ERROR")
    /\ task' = "done"
    /\ UNCHANGED <<applyVars, caller, arReq, opRet, fetched, yamlFileContents,
                   streamVars>>

\* installer, or removal of a sample application: INFO event
CompleteInfo ==
    /\ Applied
    /\ ret # "err"
    /\ arReq.opName = installLinkerdCommand \/ arReq.deleteOp
    /\ Send("INFO")
    /\ task' = "done"
    /\ UNCHANGED <<applyVars, caller, arReq, opRet, fetched, yamlFileContents,
                   streamVars>>

DeployedSample ==
    /\ Applied
    /\ ret # "err"
    /\ arReq.opName \in SampleOps
    /\ ~arReq.deleteOp

\* ports, err = iClient.getSVCPort(...): getResource of the service in the
\* namespace of the request; the cluster-scoped attempt cannot find a Service
GetSVCPort ==
    /\ DeployedSample
    /\ \E o1 \in Outcomes, o2 \in { "NotFound", "Error" } :
         LET ts == getResource("getSVCPort", o1, o2) IN
         /\ trail' = trail \o ts
         /\ task' = IF Returned(ts) = "Ok" THEN "ports-ok" ELSE "ports-err"
    /\ UNCHANGED <<applyVars, caller, arReq, opRet, fetched, eventChan,
                   yamlFileContents, streamVars>>

\* getSVCPort failed after a successful deployment: WARN event
PortsError ==
    /\ task = "ports-err"
    /\ Send("WARN")
    /\ task' = "done"
    /\ UNCHANGED <<applyVars, caller, arReq, opRet, fetched, yamlFileContents,
                   streamVars>>

\* deployment and port lookup succeeded: INFO event
PortsInfo ==
    /\ task = "ports-ok"
    /\ Send("INFO")
    /\ task' = "done"
    /\ UNCHANGED <<applyVars, caller, arReq, opRet, fetched, yamlFileContents,
                   streamVars>>

\* The default case of the switch is not an action: every key of supportedOps
\* has a case of its own.
Next ==
    \/ RejectNil
    \/ RejectUnknownOp
    \/ RejectEmptyBody
    \/ ApplyCustom
    \/ ReturnCustom
    \/ ApplyInstall
    \/ ManifestError
    \/ ApplySample
    \/ InstallerError
    \/ InstallerApply
    \/ LabelGet
    \/ TemplateError
    \/ CreateNamespace
    \/ CreateNamespaceReturn
    \/ LabelReadBack
    \/ LabelUpdate
    \/ LabelError
    \/ LabelOk
    \/ TaskApply
    \/ ApplyError
    \/ CompleteInfo
    \/ GetSVCPort
    \/ PortsError
    \/ PortsInfo
    \/ SkipEmpty
    \/ DecodeError
    \/ SkipUnsupported
    \/ GroupResourcesError
    \/ MappingError
    \/ DeleteClusterScoped
    \/ CreateClusterScoped
    \/ DeleteNamespaced
    \/ CreateNamespaced
    \/ DeferNamespace
    \/ RemoveNamespace
    \/ ReturnNil

Spec == Init /\ [][Next]_vars

\* ------------------------------------------------------------- StreamEvents
\* Events that background tasks produce while the consumers are observed, and
\* calls of stream.Send that fail.
MaxProducers == 1
MaxFailures == 1

StreamIds == 1..MaxStreams

\* The event of the n-th task that reached its send statement.
StreamEvent(n) == [operationId |-> n, eventType |-> "INFO"]

\* Events already on the channel when the observation starts: none, or as many
\* as fill it.
Backlogs == { 0, ChanCap }

InitStream ==
    /\ deploymentYAML = <<>>
    /\ deleteOpts = FALSE
    /\ pc = "idle"
    /\ idx = 1
    /\ dataNamespace = NoNamespace
    /\ calls = <<>>
    /\ ret = ""
    /\ errCall = 0
    /\ cluster = { Key("Namespace", "default") }
    /\ run = 1
    /\ prev = <<>>
    /\ caller = "none"
    /\ arReq = NoRequest
    /\ opRet = NoReturn
    /\ task = "none"
    /\ fetched = 0
    /\ yamlFileContents = <<>>
    /\ trail = <<>>
    /\ backlog \in Backlogs
    /\ eventChan = [n \in 1..backlog |-> StreamEvent(n)]
    /\ enqLog = eventChan
    /\ produced = backlog
    /\ sending = {}
    /\ requeue = {}
    /\ streams = [i \in StreamIds |-> IdleStream]
    /\ delivered = <<>>
    /\ failures = 0
    /\ budget = MaxProducers + MaxFailures

\* What the stream actions leave alone.
atRest == <<applyVars, caller, arReq, opRet, task, fetched, taskVars, backlog>>

\* A background task reaches iClient.eventChan <- event.
Produce ==
    /\ produced < backlog + MaxProducers
    /\ produced' = produced + 1
    /\ sending' = sending \cup { StreamEvent(produced + 1) }
    /\ UNCHANGED <<atRest, eventChan, requeue, streams, delivered, enqLog, failures, budget>>

\* The send of a waiting task proceeds: the channel has room.
Enqueue ==
    /\ HasRoom
    /\ \E e \in sending :
         /\ eventChan' = Append(eventChan, e)
         /\ enqLog' = Append(enqLog, e)
         /\ sending' = sending \ { e }
    /\ UNCHANGED <<atRest, requeue, streams, delivered, produced, failures, budget>>

\* A client calls StreamEvents: the loop starts.  The calls are numbered in
\* the order in which they are made.
CallStreamEvents ==
    /\ \E i \in StreamIds :
         /\ streams[i].pc = "idle"
         /\ \A j \in 1..(i - 1) : streams[j].pc # "idle"
         /\ streams' = [streams EXCEPT ![i].pc = "select"]
    /\ UNCHANGED <<atRest, eventChan, sending, requeue, delivered, enqLog, produced,
                   failures, budget>>

\* case event := <-iClient.eventChan
Receive ==
    /\ eventChan # <<>>
    /\ budget > 0
    /\ \E i \in StreamIds :
         /\ streams[i].pc = "select"
         /\ streams' = [streams EXCEPT ![i].pc = "send", ![i].event = Head(eventChan)]
    /\ eventChan' = Tail(eventChan)
    /\ budget' = budget - 1
    /\ UNCHANGED <<atRest, sending, requeue, delivered, enqLog, produced, failures>>

\* Mutant of AfterEmptyPoll: the loop ends when it finds the channel empty.
AfterEmptyPollReturns == "returned"

\* default: the select falls through to the sleep
AfterEmptyPoll == "sleep"

\* the channel is empty: the default case of the select
PollEmpty ==
    /\ eventChan = <<>>
    /\ \E i \in StreamIds :
         /\ streams[i].pc = "select"
         /\ streams' = [streams EXCEPT ![i].pc = AfterEmptyPoll]
    /\ UNCHANGED <<atRest, eventChan, sending, requeue, delivered, enqLog, produced,
                   failures, budget>>

\* stream.Send(event) returned nil
SendOk ==
    /\ \E i \in StreamIds :
         /\ streams[i].pc = "send"
         /\ delivered' = Append(delivered, streams[i].event)
         /\ streams' = [streams EXCEPT ![i].pc = "sleep", ![i].event = NoEvent]
    /\ UNCHANGED <<atRest, eventChan, sending, requeue, enqLog, produced, failures, budget>>

\* Mutant of ReAdded: the failed event is dropped.
ReAddedNever(e) == requeue

\* go func() { iClient.eventChan <- event }(): a task now holds the event
ReAdded(e) == requeue \cup { e }

\* stream.Send(event) returned an error: the event is handed to a new task
\* and StreamEvents returns the error
SendFail ==
    /\ failures < MaxFailures
    /\ \E i \in StreamIds :
         /\ streams[i].pc = "send"
         /\ requeue' = ReAdded(streams[i].event)
         /\ streams' = [streams EXCEPT ![i].pc = "returned", ![i].ret = "err",
                                       ![i].sendFailed = TRUE]
    /\ failures' = failures + 1
    /\ UNCHANGED <<atRest, eventChan, sending, delivered, enqLog, produced, budget>>

\* time.Sleep(500 * time.Millisecond), then the next turn of the loop
Sleep ==
    /\ \E i \in StreamIds :
         /\ streams[i].pc = "sleep"
         /\ streams' = [streams EXCEPT ![i].pc = "select"]
    /\ UNCHANGED <<atRest, eventChan, sending, requeue, delivered, enqLog, produced,
                   failures, budget>>

\* the re-add task puts the event back: the channel has room
ReAdd ==
    /\ HasRoom
    /\ \E e \in requeue :
         /\ eventChan' = Append(eventChan, e)
         /\ requeue' = requeue \ { e }
    /\ UNCHANGED <<atRest, sending, streams, delivered, enqLog, produced, failures, budget>>

NextStream ==
    \/ Produce
    \/ Enqueue
    \/ CallStreamEvents
    \/ Receive
    \/ PollEmpty
    \/ SendOk
    \/ SendFail
    \/ Sleep
    \/ ReAdd

SpecStream == InitStream /\ [][NextStream]_vars

\* A step of the loop of the call i of StreamEvents.
Loop(i) ==
    /\ Receive \/ PollEmpty \/ SendOk \/ SendFail \/ Sleep
    /\ streams'[i] # streams[i]

\* The scheduler runs every task that can take a step, stream.Send returns,
\* and a client whose stream ended calls StreamEvents again.
Fairness ==
    /\ \A i \in StreamIds : WF_vars(Loop(i))
    /\ WF_vars(CallStreamEvents)
    /\ WF_vars(ReAdd)
    /\ WF_vars(Enqueue)

FairSpecStream == SpecStream /\ Fairness

\* ------------------------------------------- ApplyOperation, channel full
\* The calls of StreamEvents when the request arrives: none, or one whose loop
\* is at its select.
NoConsumerYet == [i \in StreamIds |-> IdleStream]
OneConsumer == [NoConsumerYet EXCEPT ![1].pc = "select"]

\* A request arrives while the channel is full of the events of earlier
\* operations; a consumer, if there is one, takes one event and no more.
InitBlocked ==
    /\ deploymentYAML = <<>>
    /\ deleteOpts = FALSE
    /\ pc = "idle"
    /\ idx = 1
    /\ dataNamespace = NoNamespace
    /\ calls = <<>>
    /\ ret = ""
    /\ errCall = 0
    /\ cluster = { Key("Namespace", "default") }
    /\ run = 1
    /\ prev = <<>>
    /\ caller = "none"
    /\ arReq = NoRequest
    /\ opRet = NoReturn
    /\ task = "none"
    /\ fetched = 0
    /\ yamlFileContents = <<>>
    /\ trail = <<>>
    /\ backlog = ChanCap
    /\ eventChan = [n \in 1..backlog |-> StreamEvent(n)]
    /\ enqLog = eventChan
    /\ produced = backlog
    /\ sending = {}
    /\ requeue = {}
    /\ streams \in { NoConsumerYet, OneConsumer }
    /\ delivered = <<>>
    /\ failures = 0
    /\ budget = 1

\* The installation of the mesh, requested while the channel is full.  The
\* channel is never found empty here, so the default case of the select is not
\* among the steps; no further client calls StreamEvents.
NextBlocked ==
    \/ ApplyInstall
    \/ InstallerError
    \/ InstallerApply
    \/ ApplyError
    \/ CompleteInfo
    \/ SkipEmpty
    \/ DecodeError
    \/ SkipUnsupported
    \/ GroupResourcesError
    \/ MappingError
    \/ DeferNamespace
    \/ DeleteClusterScoped
    \/ CreateClusterScoped
    \/ DeleteNamespaced
    \/ CreateNamespaced
    \/ RemoveNamespace
    \/ ReturnNil
    \/ Receive
    \/ SendOk
    \/ SendFail
    \/ Sleep
    \/ ReAdd

SpecBlocked == InitBlocked /\ [][NextBlocked]_vars

\* ------------------------------------------------------------------ claims
\* The sixteen kinds of the allow-list, taken exactly.
AllowListed(doc) == doc.frag = "obj" /\ doc.kind \in AcceptedAlternatives

CallIds == 1..Len(calls)
DocIds == 1..Len(deploymentYAML)
IsMutation(c) == c.op \in {"create", "delete"}
\* AlreadyExists on a create, NotFound on a delete
IsConflict(c) ==
    \/ c.op = "create" /\ c.out = "AlreadyExists"
    \/ c.op = "delete" /\ c.out = "NotFound"
MutationOk(c) == IsMutation(c) /\ (c.out = "Ok" \/ IsConflict(c))
MutationFailed(c) == IsMutation(c) /\ ~MutationOk(c)
IsNamespaceDelete(c) == c.op = "delete" /\ c.kind = "Namespace"
DiscoveryFailed(c) == c.op = "discover" /\ c.out \in {"Fail", "NoMatch"}
HasNamespaceDoc == \E i \in DocIds : deploymentYAML[i].frag = "obj" /\ deploymentYAML[i].kind = "Namespace"

\* C1: in a delete run, a Namespace delete is issued only after the loop has
\* ended and after every other delete of the batch, never for the Namespace
\* "default"; a delete batch holding only Namespace "default" issues no delete
\* call and returns success.
C1_NamespaceDeletedLast ==
    deleteOpts =>
        /\ \A i \in CallIds :
             IsNamespaceDelete(calls[i]) =>
                 /\ calls[i].phase = "end"
                 /\ idx > Len(deploymentYAML)
                 /\ calls[i].name # "default"
                 /\ \A j \in CallIds : calls[j].op = "delete" /\ j # i => j < i
        /\ (pc = "done" /\ deploymentYAML = <<Doc("obj", "Namespace", "default")>>) =>
             /\ ret = "nil"
             /\ \A i \in CallIds : calls[i].op # "delete"

\* C1 witness: a Namespace that stands first in the manifest was deleted after
\* the object that follows it.
C1_Witness ==
    /\ deleteOpts
    /\ pc = "done"
    /\ \E i, j \in CallIds :
         /\ i < j
         /\ calls[i].op = "delete" /\ calls[i].phase = "loop" /\ calls[i].out = "Ok"
         /\ IsNamespaceDelete(calls[j]) /\ calls[j].out = "Ok"
         /\ calls[j].doc < calls[i].doc

\* C2: a delete call is issued after the loop only in a delete run that recorded
\* a Namespace whose name is not "default"; a delete batch without a Namespace
\* document whose per-document deletes succeeded returns success.
C2_EndDeleteOnlyForDeferredNamespace ==
    /\ \A i \in CallIds :
         calls[i].phase = "end" =>
             /\ deleteOpts
             /\ dataNamespace.doc # 0
             /\ dataNamespace.name # "default"
    /\ (/\ pc = "done"
        /\ deleteOpts
        /\ ~HasNamespaceDoc
        /\ \A i \in CallIds : calls[i].phase = "loop" => calls[i].out \in {"Ok", "NotFound"})
       => ret = "nil"

\* Documents whose create / delete was issued and succeeded, and documents
\* whose create / delete failed.
AppliedDocs == { calls[i].doc : i \in { j \in CallIds : MutationOk(calls[j]) /\ calls[j].doc # 0 } }
FailedDocs == { calls[i].doc : i \in { j \in CallIds : MutationFailed(calls[j]) /\ calls[j].doc # 0 } }
BeforeFirstFailure(i) == \A d \in FailedDocs : i < d

\* C3: once the run has returned, the documents applied with success are exactly
\* the allow-listed, decoded documents that precede the first document whose
\* mutation failed (all of them when none failed).
C3_AppliedIsPrefixOfAllowListed ==
    pc = "done" =>
        AppliedDocs = { i \in DocIds : AllowListed(deploymentYAML[i]) /\ BeforeFirstFailure(i) }

\* C4: a create or delete that fails with an error other than AlreadyExists /
\* NotFound is the last call of the run: the run has returned that error, and
\* no later call (for a later document, for a recorded Namespace, or to undo
\* what was applied) follows it.
C4_FailureAbortsBatch ==
    \A i \in CallIds :
        (IsMutation(calls[i]) /\ calls[i].out \in {"Error", "Refused"}) =>
            /\ i = Len(calls)
            /\ pc = "done"
            /\ ret = "err"
            /\ errCall = i

\* C4 witness: a delete failed in the loop after a Namespace other than "default"
\* was recorded; the run returned the error and the Namespace was left alone.
C4_Witness ==
    /\ pc = "done"
    /\ ret = "err"
    /\ errCall > 0
    /\ calls[errCall].out = "Error"
    /\ calls[errCall].phase = "loop"
    /\ dataNamespace.doc # 0
    /\ dataNamespace.name # "default"
    /\ Key("Namespace", dataNamespace.name) \in cluster

\* C5: when the resource mapping of an allow-listed, decoded document cannot be
\* resolved, the run returns an error.
C5_DiscoveryFailureReturnsError ==
    (/\ pc = "done"
     /\ \E i \in CallIds :
          /\ DiscoveryFailed(calls[i])
          /\ AllowListed(deploymentYAML[calls[i].doc]))
    => ret = "err"

\* C6: no create answered AlreadyExists and no delete answered NotFound, in the
\* loop or after it, is the error the run returns.
C6_ConflictIsSuccess ==
    \A i \in CallIds :
        IsConflict(calls[i]) => ~(ret = "err" /\ errCall = i)

\* C7: when no call of either application met a failure other than
\* AlreadyExists / NotFound, the second application of a manifest has returned
\* success, and so has the first.
C7_ReapplyIdempotent ==
    (/\ pc = "done"
     /\ run >= 2
     /\ ~Faulty(calls)
     /\ \A k \in 1..Len(prev) : ~prev[k].faulty)
    => /\ ret = "nil"
       /\ \A k \in 1..Len(prev) : prev[k].ret = "nil"

\* C8: a document that does not decode or whose kind is not allow-listed causes
\* no cluster call, and does not stop the batch: when the batch holds such a
\* document and no call failed, every allow-listed document was processed and
\* the run returned success.
C8_SkippedDocumentDoesNotStopBatch ==
    /\ \A i \in CallIds :
         calls[i].doc # 0 => AllowListed(deploymentYAML[calls[i].doc])
    /\ (/\ pc = "done"
        /\ ~Faulty(calls)
        /\ \E d \in DocIds :
             deploymentYAML[d].frag # "blank" /\ ~AllowListed(deploymentYAML[d])) =>
         /\ ret = "nil"
         /\ \A d \in DocIds :
              AllowListed(deploymentYAML[d]) => \E i \in CallIds : calls[i].doc = d

\* C9: every discovery, create or delete call made for a document is made for a
\* document whose kind is exactly one of the sixteen allow-listed kinds.
C9_CallsOnlyForExactKinds ==
    \A i \in CallIds :
        (calls[i].doc # 0 /\ calls[i].op \in {"discover", "create", "delete"}) =>
            deploymentYAML[calls[i].doc].kind \in AcceptedAlternatives

\* C10: a request whose opName is not in the registry, or the custom operation
\* with an empty body, is answered with an error in the step that receives it:
\* no background task, no cluster call, no manifest retrieval and no event.
C10_InvalidRequestRejected ==
    (/\ arReq # NoRequest
     /\ \/ arReq.opName \notin supportedOps
        \/ arReq.opName = customOpCommand /\ arReq.customBody = <<>>)
    => /\ opRet = Err
       /\ task = "none"
       /\ pc = "idle"
       /\ calls = <<>>
       /\ fetched = 0
       /\ eventChan = <<>>

\* C10 witness: the custom operation with an empty body was rejected.
C10_Witness ==
    /\ arReq.opName = customOpCommand
    /\ arReq.customBody = <<>>
    /\ arReq.operationId \in OperationIds
    /\ opRet = Err

\* The operations ApplyOperation runs in a background task.
AsyncOps == { installLinkerdCommand } \cup SampleOps
AsyncRequest == arReq.opName \in AsyncOps /\ arReq.customBody = <<>>
Acknowledged == opRet = [status |-> "ok", operationId |-> arReq.operationId]
HasEvent(type) ==
    \E i \in 1..Len(eventChan) :
        eventChan[i] = [operationId |-> arReq.operationId, eventType |-> type]

\* C11 as stated: an asynchronous operation with a valid request is answered
\* with the acknowledgement carrying the operationId of the request, whatever
\* fails, the retrieval or rendering of the manifest included.
C11_AcknowledgedWhateverFails ==
    (AsyncRequest /\ opRet # NoReturn) => Acknowledged

\* C11 amended: an asynchronous operation with a valid request is answered in
\* the step that receives it, and the answer never changes afterwards: it is the
\* acknowledgement carrying the operationId of the request, unless the manifest
\* of a sample application could not be retrieved or rendered; then it is the
\* error, and no task was started, no cluster call made and no event enqueued.
C11_AcknowledgedUnlessManifestFails ==
    AsyncRequest =>
        \/ Acknowledged
        \/ /\ opRet = Err
           /\ arReq.opName \in SampleOps
           /\ task = "none"
           /\ pc = "idle"
           /\ calls = <<>>
           /\ trail = <<>>
           /\ eventChan = <<>>

\* C11 witness: the task of an acknowledged operation failed and said so by an
\* ERROR event.
C11_Witness ==
    /\ AsyncRequest
    /\ Acknowledged
    /\ task = "done"
    /\ HasEvent("ERROR")

\* C13: the custom operation with a non-empty body is applied by the calling
\* task; ApplyOperation returns only once applyConfigChange has returned, the
\* acknowledgement with the operationId if the apply succeeded and the error
\* otherwise; no background task is started and no event is enqueued.
C13_CustomAppliedSynchronously ==
    (arReq.opName = customOpCommand /\ arReq.customBody # <<>>) =>
        /\ caller = "sync"
        /\ deploymentYAML = arReq.customBody
        /\ deleteOpts = arReq.deleteOp
        /\ task = "none"
        /\ trail = <<>>
        /\ eventChan = <<>>
        /\ opRet # NoReturn =>
              /\ pc = "done"
              /\ ret = "err" => opRet = Err
              /\ ret = "nil" => Acknowledged

\* C13 witness: a custom body changed the cluster, then failed, and the error
\* was returned.
C13_Witness ==
    /\ arReq.opName = customOpCommand
    /\ opRet = Err
    /\ ret = "err"
    /\ \E i \in CallIds : IsMutation(calls[i]) /\ calls[i].out = "Ok"

\* The call was made for the document it names.
CallOfDocument(c) ==
    /\ c.doc \in DocIds
    /\ deploymentYAML[c.doc].kind = c.kind
    /\ deploymentYAML[c.doc].name = c.name

\* C17: within one run the create and delete calls of the loop are issued in
\* the order of their documents in the manifest; the only call issued out of
\* that order is the delete after the loop, which is the last call of a delete
\* run and is for no document other than a Namespace.
C17_MutationsInTextualOrder ==
    \A j \in CallIds :
        IsMutation(calls[j]) =>
            IF calls[j].phase = "loop"
            THEN /\ CallOfDocument(calls[j])
                 /\ ~(deleteOpts /\ calls[j].kind = "Namespace")
                 /\ \A i \in 1..(j - 1) :
                      IsMutation(calls[i]) =>
                          calls[i].phase = "loop" /\ calls[i].doc < calls[j].doc
            ELSE /\ deleteOpts
                 /\ j = Len(calls)
                 /\ calls[j].op = "delete"
                 /\ calls[j].doc # 0 =>
                      CallOfDocument(calls[j]) /\ calls[j].kind = "Namespace"

\* C17 witness: two documents were created one after the other, in the order
\* of the manifest.
C17_Witness ==
    /\ ~deleteOpts
    /\ pc = "done"
    /\ \E i, j \in CallIds :
         /\ i < j
         /\ calls[i].op = "create" /\ calls[i].doc = 1 /\ calls[i].out = "Ok"
         /\ calls[j].op = "create" /\ calls[j].doc = 2 /\ calls[j].out = "Ok"

TrailIds == 1..Len(trail)
IsResult(e, what, by) == e.what = what /\ e.by = by /\ e.scope = "result"
\* The returns of the getResource and updateResource calls of the labelling.
LabelGets == SelectSeq(trail, LAMBDA e : IsResult(e, "get", "label"))
LabelUpdates == SelectSeq(trail, LAMBDA e : IsResult(e, "update", "label"))
UpdateIssued == \E i \in TrailIds : trail[i].what = "update"
ApplyStarted == \E i \in TrailIds : trail[i].what = "apply"
CreateNamespaceFailed ==
    \E i \in TrailIds : trail[i].what = "createNamespace" /\ trail[i].out = "Error"
CreateNamespaceOk ==
    \E i \in TrailIds : trail[i].what = "createNamespace" /\ trail[i].out = "Ok"
\* labelNamespaceForAutoInjection returned an error / returned nil.
LabelFailed ==
    \/ task = "label-err"
    \/ task = "done" /\ ~ApplyStarted /\ HasEvent("ERROR")
LabelSucceeded == task = "label-ok"

\* C12: a background task that has ended has enqueued exactly one event, which
\* carries the operationId of the request: ERROR if the installer, the
\* labelling or the apply failed (a document left unapplied by a failure
\* counts), WARN if the deployment succeeded and the port lookup failed, INFO
\* only if everything succeeded.
TaskEnded == task \in { "done", "panic" }
TaskFailed == ~ApplyStarted \/ ret = "err" \/ Faulty(calls)
PortsFailed ==
    \E i \in TrailIds : IsResult(trail[i], "get", "getSVCPort") /\ trail[i].out # "Ok"
C12_OneEventPerTask ==
    TaskEnded =>
        /\ Len(eventChan) = 1
        /\ eventChan[1].operationId = arReq.operationId
        /\ eventChan[1].eventType =
              IF TaskFailed THEN "ERROR" ELSE IF PortsFailed THEN "WARN" ELSE "INFO"

\* The stage of the sample-application task an entry of the trail belongs to.
Stage(e) ==
    IF e.by = "label" THEN 1
    ELSE IF e.what = "apply" THEN 2
    ELSE IF e.by = "getSVCPort" THEN 3
    ELSE 4
HasStage(n) == \E i \in TrailIds : Stage(trail[i]) = n

\* C18: the task of a sample application labels the namespace, then applies
\* the manifest, then looks up the ports, then enqueues its event; it applies
\* only after the labelling succeeded, looks up ports only after the apply
\* succeeded, and for a removal neither labels nor looks up ports.
C18_SampleTaskOrder ==
    arReq.opName \in SampleOps =>
        /\ \A i, j \in TrailIds : i < j => Stage(trail[i]) <= Stage(trail[j])
        /\ Cardinality({ i \in TrailIds : Stage(trail[i]) \in {2, 4} }) <= 2
        /\ arReq.deleteOp => ~HasStage(1) /\ ~HasStage(3)
        /\ (~arReq.deleteOp /\ HasStage(2)) => trail[1] = Step("label", "label", "", "Ok")
        /\ HasStage(3) => HasStage(2) /\ pc = "done" /\ ret = "nil"
        /\ (~arReq.deleteOp /\ (HasEvent("INFO") \/ HasEvent("WARN"))) => HasStage(3)
        /\ HasStage(4) => task = "done"

\* C18 witness: a deployment went through the four stages and ended with INFO.
C18_Witness ==
    /\ arReq.opName \in SampleOps
    /\ ~arReq.deleteOp
    /\ task = "done"
    /\ HasEvent("INFO")
    /\ HasStage(1) /\ HasStage(2) /\ HasStage(3)
    /\ \E i \in CallIds : calls[i].op = "create" /\ calls[i].out = "Ok"

\* C19: when the namespace does not exist the labelling creates it, reads it
\* back and then updates it, and returns success only if the update succeeded;
\* when the first lookup fails otherwise, or the creation or the read-back
\* fails, it returns the error and issues no update.
C19_LabelCreatesThenUpdates ==
    /\ (LabelGets # <<>> /\ LabelGets[1].out = "Error") => LabelFailed /\ ~UpdateIssued
    /\ CreateNamespaceFailed => LabelFailed /\ ~UpdateIssued
    /\ (Len(LabelGets) >= 2 /\ LabelGets[2].out # "Ok") => LabelFailed /\ ~UpdateIssued
    /\ (LabelGets # <<>> /\ LabelGets[1].out = "NotFound" /\ UpdateIssued) =>
          /\ CreateNamespaceOk
          /\ Len(LabelGets) = 2
          /\ LabelGets[2].out = "Ok"
    /\ LabelSucceeded =>
          /\ LabelUpdates # <<>>
          /\ LabelUpdates[Len(LabelUpdates)].out = "Ok"

\* C20: getResource and updateResource issue the namespaced call first and the
\* cluster-scoped call only after the namespaced call failed; they return
\* success with the first call that succeeded, and otherwise the error of the
\* cluster-scoped call.
C20_NamespacedThenClusterScoped ==
    \A i \in TrailIds :
        LET e == trail[i] IN
        /\ e.scope = "namespaced" =>
              /\ i + 1 <= Len(trail)
              /\ IF e.out = "Ok"
                 THEN trail[i + 1] = [what |-> e.what, by |-> e.by, scope |-> "result",
                                      out |-> "Ok", from |-> "namespaced"]
                 ELSE /\ i + 2 <= Len(trail)
                      /\ trail[i + 1].what = e.what
                      /\ trail[i + 1].by = e.by
                      /\ trail[i + 1].scope = "cluster"
                      /\ trail[i + 2] =
                           [what |-> e.what, by |-> e.by, scope |-> "result",
                            out |-> trail[i + 1].out,
                            from |-> IF trail[i + 1].out = "Ok" THEN "cluster" ELSE "none"]
        /\ e.scope = "cluster" =>
              /\ i > 1
              /\ trail[i - 1].scope = "namespaced"
              /\ trail[i - 1].what = e.what
              /\ trail[i - 1].out # "Ok"
        /\ e.scope = "result" =>
              /\ i > 1
              /\ trail[i - 1].scope \in { "namespaced", "cluster" }
              /\ trail[i - 1].out = e.out

\* C20 witness: a lookup succeeded on its cluster-scoped call and an update
\* failed on both calls, returning the error of the second.
C20_Witness ==
    /\ \E i \in TrailIds :
         IsResult(trail[i], "get", "label") /\ trail[i].from = "cluster"
    /\ \E i \in TrailIds :
         /\ IsResult(trail[i], "update", "label")
         /\ trail[i].out = "Error"
         /\ trail[i - 1].scope = "cluster"
         /\ trail[i - 2].out = "Error"

Held == { streams[i].event : i \in { j \in StreamIds : streams[j].pc = "send" } }
InQueue(e) == \E i \in 1..Len(eventChan) : eventChan[i] = e
Delivered(e) == \E i \in 1..Len(delivered) : delivered[i] = e
\* The event is on the channel, with a loop that is sending it, with a re-add
\* task, or delivered.
Kept(e) == InQueue(e) \/ e \in Held \/ e \in requeue \/ Delivered(e)

\* C14: an event a producer has enqueued is at every later moment on the
\* channel, held by a loop that is delivering it, held by a re-add task, or
\* delivered; and an event whose delivery failed is eventually delivered once
\* a consumer reconnects and deliveries succeed.
C14_NoEventLost ==
    /\ [](\A i \in 1..Len(enqLog) : Kept(enqLog[i]))
    /\ \A n \in 1..MaxProducers :
         (backlog = 0 /\ StreamEvent(n) \in requeue) ~> Delivered(StreamEvent(n))

\* C14 witness: an event whose delivery failed was delivered by another call
\* of StreamEvents.
C14_Witness ==
    \E i \in StreamIds :
        /\ streams[i].sendFailed
        /\ streams[i].pc = "returned"
        /\ Delivered(streams[i].event)

\* C15: a call of StreamEvents has returned exactly if one of its deliveries
\* failed, and then it returned an error; a loop returns from nowhere but a
\* failed delivery.
C15_ReturnsOnlyOnFailedDelivery ==
    /\ [](\A i \in StreamIds :
            /\ streams[i].pc = "returned" <=> streams[i].sendFailed
            /\ streams[i].ret = IF streams[i].sendFailed THEN "err" ELSE "")
    /\ [][\A i \in StreamIds :
            (streams[i].pc # "returned" /\ streams'[i].pc = "returned") =>
                streams[i].pc = "send" /\ failures' = failures + 1]_vars

\* C15 witness: one call returned the error of a failed delivery while another
\* goes on polling after a delivery that succeeded.
C15_Witness ==
    /\ \E i \in StreamIds : streams[i].pc = "returned" /\ streams[i].ret = "err"
    /\ \E j \in StreamIds : streams[j].pc = "select" /\ eventChan = <<>>
    /\ delivered # <<>>

IsPrefix(p, q) == Len(p) <= Len(q) /\ SubSeq(q, 1, Len(p)) = p
SingleConsumer == Cardinality({ i \in StreamIds : streams[i].pc # "idle" }) <= 1

\* C16: the channel never holds more than 100 events, however many tasks are
\* trying to send; with one consumer and no failed delivery the events are
\* delivered in the order in which they were enqueued.
C16_BoundedFifo ==
    /\ Len(eventChan) <= ChanCap
    /\ (SingleConsumer /\ failures = 0) => IsPrefix(delivered, enqLog)

\* C16 witness: the oldest event was taken, a producer filled the channel
\* again, and the re-add task of the failed delivery waits at the full channel.
C16_Witness ==
    /\ Len(eventChan) = ChanCap
    /\ Len(enqLog) > backlog
    /\ requeue # {}

\* The documents of a delete run that were recorded as the Namespace to delete
\* at the end of the batch.
DeferredDocs ==
    { calls[i].doc : i \in { j \in CallIds :
          /\ deleteOpts
          /\ calls[j].op = "discover"
          /\ calls[j].out = "Ok"
          /\ calls[j].kind = "Namespace" } }
LastDeferred == CHOOSE d \in DeferredDocs : \A e \in DeferredDocs : e <= d
EndCalls == { i \in CallIds : calls[i].phase = "end" }

\* C21: in a delete batch with several Namespace documents only the one
\* deferred last is kept: after the loop at most one delete is issued, it is
\* for that last Namespace and not for "default", and no delete call is issued
\* for a Namespace document deferred before it.
C21_OnlyLastNamespaceDeleted ==
    DeferredDocs # {} =>
        /\ dataNamespace.doc = LastDeferred
        /\ dataNamespace.name = deploymentYAML[LastDeferred].name
        /\ Cardinality(EndCalls) <= 1
        /\ \A i \in CallIds :
             IsNamespaceDelete(calls[i]) =>
                 /\ i \in EndCalls
                 /\ calls[i].doc = LastDeferred
                 /\ calls[i].name = deploymentYAML[LastDeferred].name
                 /\ calls[i].name # "default"
        /\ \A i \in EndCalls : IsNamespaceDelete(calls[i])

\* C21 witness: two Namespaces of different names were deferred, the delete
\* of the second succeeded and the first was never deleted.
C21_Witness ==
    /\ pc = "done"
    /\ \E d \in DeferredDocs :
         /\ d < LastDeferred
         /\ deploymentYAML[d].name # deploymentYAML[LastDeferred].name
         /\ deploymentYAML[d].name # "default"
         /\ \A i \in CallIds : calls[i].op = "delete" => calls[i].name # deploymentYAML[d].name
    /\ \E i \in EndCalls : calls[i].out = "Ok"

Full == Len(eventChan) = ChanCap
\* The background task stands at a send on the channel.
AtSend ==
    \/ task \in { "label-err", "ports-err", "ports-ok" }
    \/ Applied /\ (ret = "err" \/ arReq.opName = installLinkerdCommand \/ arReq.deleteOp)
NoConsumer == \A i \in StreamIds : streams[i].pc \in { "idle", "returned" }
\* A loop of StreamEvents takes the oldest event.
Taken ==
    /\ eventChan # <<>>
    /\ eventChan' = Tail(eventChan)
    /\ \E i \in StreamIds :
         /\ streams[i].pc = "select"
         /\ streams'[i].pc = "send"
         /\ streams'[i].event = Head(eventChan)
\* An event is put behind the events of a channel that has room.
Added ==
    /\ ~Full
    /\ Len(eventChan') = Len(eventChan) + 1
    /\ SubSeq(eventChan', 1, Len(eventChan)) = eventChan

\* C22: the channel never holds more than 100 events and changes only by a
\* consumer taking its oldest event or by an event added while there is room;
\* a task or re-add task at its send neither moves on nor loses its event
\* while the channel is full, and with the channel full and no loop of
\* StreamEvents running nothing changes for them; the call that started the
\* task has returned its acknowledgement.
C22_FullChannelBlocksSenders ==
    /\ [](/\ Len(eventChan) <= ChanCap
          /\ AtSend => Acknowledged)
    /\ [][/\ eventChan' # eventChan => Taken \/ Added
          /\ (AtSend /\ task' # task) =>
                /\ Added
                /\ task' = "done"
                /\ eventChan'[Len(eventChan')].operationId = arReq.operationId
          /\ \A e \in requeue :
                e \notin requeue' => Added /\ eventChan'[Len(eventChan')] = e
          /\ (Full /\ NoConsumer) =>
                /\ eventChan' = eventChan
                /\ requeue' = requeue
                /\ AtSend => task' = task /\ opRet' = opRet]_vars

\* C22 witness: the consumer has gone after a failed delivery, its re-add task
\* filled the channel again, and the task of an acknowledged operation stands
\* at its send.
C22_Witness ==
    /\ Full
    /\ NoConsumer
    /\ AtSend
    /\ Acknowledged
    /\ streams[1].pc = "returned"
    /\ requeue = {}

====
